---- MODULE Spec2Model ----
(***************************************************************************)
(* Model of fed-word2vec's text cleaner (src/src/text_cleaner.py) and of   *)
(* the cleaning command that drives it (src/src/fed_word2vec/cli.py).      *)
(*                                                                         *)
(* Text is modelled by TLA+ strings, character by character: the regular   *)
(* expressions of the source are written out as the scans they perform.    *)
(* Removal ratios and guards are exact rationals <<numerator, denominator>>*)
(* (the source uses Python floats).                                        *)
(***************************************************************************)
EXTENDS Integers, Sequences, FiniteSets, TLC

(***************************************************************************)
(* Characters and the string primitives of Python the source relies on.    *)
(***************************************************************************)
Char(s, i) == SubSeq(s, i, i)

CharsOf(s) == { Char(s, i) : i \in 1..Len(s) }

LOWER == "abcdefghijklmnopqrstuvwxyz"

UPPER == "ABCDEFGHIJKLMNOPQRSTUVWXYZ"

\* [A-Za-z]
Letters == CharsOf(LOWER) \cup CharsOf(UPPER)

\* \d
Digits == CharsOf("0123456789")

\* \w
WordChars == Letters \cup Digits \cup {"_"}

\* \s, and the characters str.strip() trims
Spaces == {" ", "\t", "\n", "\r", "\f"}

\* [ \t]
Blanks == {" ", "\t"}

\* [A-Za-z']
AlphaApos == Letters \cup {"'"}

\* [A-Za-z0-9']
AlnumApos == Letters \cup Digits \cup {"'"}

\* [\s\-_=]
SeparatorChars == Spaces \cup {"-", "_", "="}

\* The lower-case letter of each upper-case one
ToLower ==
  [c \in CharsOf(UPPER) |-> Char(LOWER, CHOOSE i \in 1..Len(UPPER) : Char(UPPER, i) = c)]

lower_char(c) == IF c \in DOMAIN ToLower THEN ToLower[c] ELSE c

RECURSIVE concat_range(_, _, _)
\* The strings pieces[lo], ..., pieces[hi] put end to end
concat_range(pieces, lo, hi) ==
  IF lo > hi THEN ""
  ELSE IF lo = hi THEN pieces[lo]
  ELSE LET mid == (lo + hi) \div 2
       IN  concat_range(pieces, lo, mid) \o concat_range(pieces, mid + 1, hi)

\* "".join(pieces)
concat(pieces) == concat_range(pieces, 1, Len(pieces))

\* str.lower()
lower(s) == concat([i \in 1..Len(s) |-> lower_char(Char(s, i))])

\* s[i:i+len(p)] == p
MatchAt(s, p, i) ==
  /\ i >= 1
  /\ i + Len(p) - 1 <= Len(s)
  /\ SubSeq(s, i, i + Len(p) - 1) = p

\* p in s
Contains(s, p) == \E i \in 1..(Len(s) - Len(p) + 1) : MatchAt(s, p, i)

\* The position after the longest run of characters of Cls that starts at i
\* (a greedy  [Cls]*  at i).
SkipWhile(s, i, Cls) ==
  IF i > Len(s) THEN i
  ELSE CHOOSE j \in i..(Len(s) + 1) :
         /\ \A k \in i..(j - 1) : Char(s, k) \in Cls
         /\ (j = Len(s) + 1 \/ Char(s, j) \notin Cls)

\* The position before the longest run of characters of Cls that ends at i
SkipBack(s, i, Cls) ==
  IF i < 1 THEN i
  ELSE CHOOSE j \in { i - d : d \in 0..i } :
         /\ \A k \in (j + 1)..i : Char(s, k) \in Cls
         /\ (j = 0 \/ Char(s, j) \notin Cls)

\* str.strip()
strip(s) == SubSeq(s, SkipWhile(s, 1, Spaces), SkipBack(s, Len(s), Spaces))

\* The k-th smallest element of the set P of positions
NthPosition(P, k) == CHOOSE i \in P : Cardinality({ j \in P : j < i }) = k - 1

\* The least element of the non-empty set P of positions
FirstPosition(P) == CHOOSE i \in P : \A j \in P : i <= j

\* re.findall(r"[Cls]+", s): the maximal runs of characters of Cls, in order
findall(s, Cls) ==
  LET starts == { i \in 1..Len(s) :
                    Char(s, i) \in Cls /\ (i = 1 \/ Char(s, i - 1) \notin Cls) }
  IN  [k \in 1..Cardinality(starts) |->
         LET i == NthPosition(starts, k) IN SubSeq(s, i, SkipWhile(s, i, Cls) - 1)]

\* s.split("\n")
split(s) ==
  LET nl == { i \in 1..Len(s) : Char(s, i) = "\n" }
      n == Cardinality(nl)
  IN  [k \in 1..(n + 1) |->
         SubSeq(s,
                IF k = 1 THEN 1 ELSE NthPosition(nl, k - 1) + 1,
                IF k = n + 1 THEN Len(s) ELSE NthPosition(nl, k) - 1)]

\* "\n".join(lines)
join(lines) ==
  IF lines = <<>> THEN ""
  ELSE concat([i \in 1..(2 * Len(lines) - 1) |->
                 IF i % 2 = 1 THEN lines[(i + 1) \div 2] ELSE "\n"])

RECURSIVE replace(_, _, _)
\* s.replace(old, new), old non-empty: every non-overlapping occurrence, left to right
replace(s, old, new) ==
  LET occurrences == { i \in 1..Len(s) : MatchAt(s, old, i) }
  IN  IF occurrences = {} THEN s
      ELSE LET i == FirstPosition(occurrences)
           IN  SubSeq(s, 1, i - 1) \o new
                 \o replace(SubSeq(s, i + Len(old), Len(s)), old, new)

\* re.sub(r"[Cls]{atLeast,}", to, s): every maximal run of characters of Cls
\* that is at least atLeast long becomes `to`
collapse(s, Cls, atLeast, to) ==
  concat([i \in 1..Len(s) |->
            IF Char(s, i) \notin Cls THEN Char(s, i)
            ELSE LET first == SkipBack(s, i, Cls) + 1
                     last == SkipWhile(s, i, Cls) - 1
                 IN  IF last - first + 1 < atLeast THEN Char(s, i)
                     ELSE IF i = first THEN to
                     ELSE ""])

(***************************************************************************)
(* Constants of text_cleaner.py.                                           *)
(***************************************************************************)
\* Boilerplate phrases to remove, in the order of the list
BOILERPLATE ==
  << "Board of Governors of the Federal Reserve System",
     "Back to top",
     "Return to text",
     "Skip to main content",
     "Accessibility",
     "Contact Us",
     "Last Update:",
     "Home |",
     "| Privacy" >>

\* Narrative keywords to preserve
NARRATIVE_KEYWORDS ==
  { "inflation", "policy", "rate", "funds", "market", "economic", "growth", "financial",
    "committee", "participants", "staff", "balance", "sheet", "reserve", "credit", "risk",
    "employment", "output", "gdp", "prices", "labor", "wage", "supply", "demand",
    "investment", "spending", "unemployment", "ioer", "iorb", "rrp", "soma",
    "balance sheet", "runoff", "transmission", "forecast", "projection", "estimate",
    "assessment", "decision", "rationale", "tools",
    "mbs", "mortgage-backed", "mortgage backed", "treasury", "treasuries",
    "qe", "qt", "quantitative easing", "quantitative tightening",
    "repo", "reverse repo", "repurchase",
    "discount window", "primary credit", "secondary credit",
    "standing repo facility", "srf",
    "facility", "facilities",
    "swap", "swap lines", "fima",
    "liquidity",
    "open market", "desk", "soma operations" }

\* The literal alternatives of VERB_PATTERN
VERB_WORDS ==
  { "is", "are", "was", "were", "be", "been", "being", "has", "have", "had", "will",
    "would", "should", "can", "could", "may", "might", "does", "do", "did" }

\* A maximal run w of \w characters, lower-cased, matches
\*   (is|are|...|did|\w+ing|\w+ed)
\* as a whole.
verb_word(w) ==
  \/ w \in VERB_WORDS
  \/ Len(w) >= 4 /\ SubSeq(w, Len(w) - 2, Len(w)) = "ing"
  \/ Len(w) >= 3 /\ SubSeq(w, Len(w) - 1, Len(w)) = "ed"

\* VERB_PATTERN.search(line) is not None.  The pattern is \b(...)\b with
\* re.IGNORECASE and every alternative is made of \w characters only, so a
\* match is exactly one maximal run of \w characters.
VERB_PATTERN(line) ==
  LET runs == findall(lower(line), WordChars)
  IN  \E k \in 1..Len(runs) : verb_word(runs[k])

\* \b between positions i-1 and i of s
WordBoundary(s, i) ==
  LET before == i >= 2 /\ i - 1 <= Len(s) /\ Char(s, i - 1) \in WordChars
      after  == i >= 1 /\ i <= Len(s) /\ Char(s, i) \in WordChars
  IN  before # after

\* REMOVE_LINE_PATTERNS: for each pattern of the list, in order, whether
\* re.match(pattern, s, re.IGNORECASE) succeeds (a match anchored at the
\* start of s; s holds no newline).  t is s lower-cased.
REMOVE_LINE_PATTERNS(s) ==
  LET t  == lower(s)
      n  == Len(t)
      b  == SkipWhile(t, 1, Spaces)         \* after a leading \s*
      d  == SkipWhile(t, b, Digits)         \* after \s*\d*
      d1 == SkipWhile(t, 1, Digits)         \* after a leading \d*
      p  == SkipWhile(t, b + 1, Digits)     \* after \s*.\d*
  IN  << \* ^\s*PRESENT\s*:.*$
         MatchAt(t, "present", b) /\ MatchAt(t, ":", SkipWhile(t, b + 7, Spaces)),
         \* ^\s*ATTENDEES?\s*:.*$
         /\ MatchAt(t, "attendee", b)
         /\ \/ MatchAt(t, ":", SkipWhile(t, b + 8, Spaces))
            \/ MatchAt(t, "s", b + 8) /\ MatchAt(t, ":", SkipWhile(t, b + 9, Spaces)),
         \* ^\s*ATTENDING\s*:.*$
         MatchAt(t, "attending", b) /\ MatchAt(t, ":", SkipWhile(t, b + 9, Spaces)),
         \* ^\s*Attended.*session.*$
         MatchAt(t, "attended", b) /\ \E i \in (b + 8)..n : MatchAt(t, "session", i),
         \* Return to text
         MatchAt(t, "return to text", 1),
         \* \d+\.\s*Return to text
         /\ d1 > 1
         /\ MatchAt(t, ".", d1)
         /\ MatchAt(t, "return to text", SkipWhile(t, d1 + 1, Spaces)),
         \* Footnote\s*\d+
         /\ MatchAt(t, "footnote", 1)
         /\ LET k == SkipWhile(t, 9, Spaces) IN k <= n /\ Char(t, k) \in Digits,
         \* ^\s*\d+\s*$
         d > b /\ SkipWhile(t, d, Spaces) = n + 1,
         \* ^\s*[a-z]\.\s*$
         /\ b <= n /\ Char(t, b) \in Letters
         /\ MatchAt(t, ".", b + 1)
         /\ SkipWhile(t, b + 2, Spaces) = n + 1,
         \* ^\s*\(\d+\)\s*$
         /\ MatchAt(t, "(", b)
         /\ p > b + 1
         /\ MatchAt(t, ")", p)
         /\ SkipWhile(t, p + 1, Spaces) = n + 1,
         \* ^\s*\([a-z]\)\s*$
         /\ MatchAt(t, "(", b)
         /\ b + 1 <= n /\ Char(t, b + 1) \in Letters
         /\ MatchAt(t, ")", b + 2)
         /\ SkipWhile(t, b + 3, Spaces) = n + 1,
         \* ^[\s\-_=]+$
         n >= 1 /\ \A i \in 1..n : Char(t, i) \in SeparatorChars,
         \* ^.*https?://.*$
         Contains(t, "http://") \/ Contains(t, "https://"),
         \* ^.*\bPDF\b.*$
         \E i \in 1..n : MatchAt(t, "pdf", i) /\ WordBoundary(t, i) /\ WordBoundary(t, i + 3),
         \* ^.*\.pdf\b.*$
         \E i \in 1..n : MatchAt(t, ".pdf", i) /\ WordBoundary(t, i + 4) >>

(***************************************************************************)
(* Exact rationals <<n, d>> with d > 0, for the float arithmetic of the    *)
(* guard and of the profiler.                                              *)
(***************************************************************************)
RECURSIVE Gcd(_, _)
Gcd(a, b) == IF b = 0 THEN a ELSE Gcd(b, a % b)

Abs(n) == IF n < 0 THEN -n ELSE n

Rat(n, d) == LET g == Gcd(Abs(n), d) IN <<n \div g, d \div g>>

RatLess(a, b) == a[1] * b[2] < b[1] * a[2]

RatLeq(a, b) == a[1] * b[2] <= b[1] * a[2]

RatEq(a, b) == a[1] * b[2] = b[1] * a[2]

RatAdd(a, b) == Rat(a[1] * b[2] + b[1] * a[2], a[2] * b[2])

\* min(a, b) and max(a, b) of Python: the first argument on a tie
RatMin(a, b) == IF RatLess(b, a) THEN b ELSE a

RatMax(a, b) == IF RatLess(a, b) THEN b ELSE a

\* DEFAULT_REMOVAL_GUARD = 0.4
DEFAULT_REMOVAL_GUARD == Rat(4, 10)

\* Python's None, where a guard is expected
None == <<>>

(***************************************************************************)
(* text_cleaner.py: line classification and extract_text.                  *)
(***************************************************************************)
RECURSIVE remove_boilerplate_from(_, _)
remove_boilerplate_from(text, k) ==
  IF k > Len(BOILERPLATE) THEN text
  ELSE remove_boilerplate_from(replace(text, BOILERPLATE[k], " "), k + 1)

\* _remove_boilerplate
remove_boilerplate(text) == remove_boilerplate_from(text, 1)

\* One line matches some entry of REMOVE_LINE_PATTERNS (the inner loop of
\* _remove_line_artifacts and the first loop of _line_is_garbage)
matches_remove_pattern(line) ==
  LET m == REMOVE_LINE_PATTERNS(strip(line))
  IN  \E k \in 1..Len(m) : m[k]

RECURSIVE drop_artifact_lines_sparing_rosters(_)
\* drop_artifact_lines without the four roster entries of
\* REMOVE_LINE_PATTERNS
drop_artifact_lines_sparing_rosters(lines) ==
  IF lines = <<>> THEN <<>>
  ELSE IF LET m == REMOVE_LINE_PATTERNS(strip(Head(lines)))
          IN  \E k \in 5..Len(m) : m[k]
       THEN drop_artifact_lines_sparing_rosters(Tail(lines))
       ELSE <<Head(lines)>> \o drop_artifact_lines_sparing_rosters(Tail(lines))

RECURSIVE drop_artifact_lines(_)
drop_artifact_lines(lines) ==
  IF lines = <<>> THEN <<>>
  ELSE IF matches_remove_pattern(Head(lines))
       THEN drop_artifact_lines(Tail(lines))
       ELSE <<Head(lines)>> \o drop_artifact_lines(Tail(lines))

\* remove_line_artifacts dropping no line
remove_line_artifacts_dropping_nothing(text) == join(split(text))

\* _remove_line_artifacts
remove_line_artifacts(text) == join(drop_artifact_lines(split(text)))

\* _line_is_narrative
line_is_narrative(line) ==
  LET low == lower(line)
  IN  IF \E k \in NARRATIVE_KEYWORDS : Contains(low, k)
      THEN TRUE
      ELSE IF VERB_PATTERN(line)
           THEN Len(findall(line, AlphaApos)) >= 6
           ELSE FALSE

\* line.count(",")
comma_count(line) == Cardinality({ i \in 1..Len(line) : Char(line, i) = "," })

\* _line_is_garbage
line_is_garbage(line) ==
  IF matches_remove_pattern(line)
  THEN TRUE
  ELSE IF Len(findall(line, AlphaApos)) >= 6
       THEN comma_count(line) >= 3 /\ ~VERB_PATTERN(line)
       ELSE FALSE

RECURSIVE keep_lines_without_override(_)
\* keep_lines with the narrative test left out: a line is kept only when it
\* is not garbage
keep_lines_without_override(base_lines) ==
  IF base_lines = <<>> THEN <<>>
  ELSE LET ln == Head(base_lines)
           rest == keep_lines_without_override(Tail(base_lines))
       IN  IF ~line_is_garbage(ln) THEN <<ln>> \o rest ELSE rest

RECURSIVE keep_lines_stripping(_)
\* keep_lines appending ln.strip() instead of ln
keep_lines_stripping(base_lines) ==
  IF base_lines = <<>> THEN <<>>
  ELSE LET ln == Head(base_lines)
           rest == keep_lines_stripping(Tail(base_lines))
       IN  IF line_is_narrative(ln) THEN <<strip(ln)>> \o rest
           ELSE IF ~line_is_garbage(ln) THEN <<strip(ln)>> \o rest
           ELSE rest

RECURSIVE keep_lines(_)
\* extract_text, the loop over base_lines: kept_lines
keep_lines(base_lines) ==
  IF base_lines = <<>> THEN <<>>
  ELSE LET ln == Head(base_lines)
           rest == keep_lines(Tail(base_lines))
       IN  IF line_is_narrative(ln) THEN <<ln>> \o rest
           ELSE IF ~line_is_garbage(ln) THEN <<ln>> \o rest
           ELSE rest

\* extract_text, strict branch: baseline.  `text` is what main.get_text("\n",
\* strip=True) returned for the HTML.
baseline_text(text) == remove_line_artifacts(remove_boilerplate(text))

\* extract_text, strict branch: cleaned, before the guard
filtered_text(baseline_) == join(keep_lines(split(baseline_)))

\* extract_text: removed_ratio = 1.0 - (len(cleaned) / base_chars), base_chars > 0
removed_ratio(cleaned, base_chars) == Rat(base_chars - Len(cleaned), base_chars)

\* extract_text: guard
effective_guard(removal_guard_) ==
  IF removal_guard_ # None THEN removal_guard_ ELSE DEFAULT_REMOVAL_GUARD

\* guard_falls_back with  removed_ratio >= guard
guard_falls_back_at_guard(baseline_, cleaned, removal_guard_) ==
  LET base_chars == Len(baseline_)
      guard_ == effective_guard(removal_guard_)
  IN  /\ guard_ # None
      /\ base_chars # 0
      /\ RatLeq(guard_, removed_ratio(cleaned, base_chars))

\* guard_falls_back with  removed_ratio < guard
guard_falls_back_below_guard(baseline_, cleaned, removal_guard_) ==
  LET base_chars == Len(baseline_)
      guard_ == effective_guard(removal_guard_)
  IN  /\ guard_ # None
      /\ base_chars # 0
      /\ RatLess(removed_ratio(cleaned, base_chars), guard_)

\* guard_falls_back taking an empty baseline for a full removal
guard_falls_back_on_empty_baseline(baseline_, cleaned, removal_guard_) ==
  LET base_chars == Len(baseline_)
      guard_ == effective_guard(removal_guard_)
  IN  /\ guard_ # None
      /\ IF base_chars = 0 THEN RatLess(guard_, Rat(1, 1))
         ELSE RatLess(guard_, removed_ratio(cleaned, base_chars))

\* extract_text: the sanity guard replaces cleaned by baseline
guard_falls_back(baseline_, cleaned, removal_guard_) ==
  LET base_chars == Len(baseline_)
      guard_ == effective_guard(removal_guard_)
  IN  /\ guard_ # None
      /\ base_chars # 0
      /\ RatLess(guard_, removed_ratio(cleaned, base_chars))

\* normalize replacing pairs of spaces and triples of newlines once each
\* (str.replace) instead of whole runs
normalize_by_replace(t) == strip(replace(replace(t, "  ", " "), "\n\n\n", "\n\n"))

\* extract_text: final normalization
normalize(t) == strip(collapse(collapse(t, Blanks, 1, " "), {"\n"}, 3, "\n\n"))

\* extract_text, strict branch, from the baseline on: cleaned after the guard
guarded_text(baseline_, removal_guard_) ==
  LET cleaned == filtered_text(baseline_)
  IN  IF guard_falls_back(baseline_, cleaned, removal_guard_) THEN baseline_ ELSE cleaned

\* extract_text running the strict branch whatever is_fomc is
extract_text_always_strict(t, is_fomc_, removal_guard_) ==
  normalize(guarded_text(remove_line_artifacts(remove_boilerplate(t)), removal_guard_))

\* extract_text, from the text of the main node on
extract_text(t, is_fomc_, removal_guard_) ==
  LET stripped == remove_boilerplate(t)
  IN  IF is_fomc_
      THEN normalize(guarded_text(remove_line_artifacts(stripped), removal_guard_))
      ELSE normalize(remove_line_artifacts(stripped))

\* tokenize
tokenize(text) ==
  LET toks == findall(text, AlnumApos)
  IN  [k \in 1..Len(toks) |-> lower(toks[k])]

RECURSIVE removed_from_any_match(_, _)
\* removed_from without the decrement: a baseline line is matched whenever
\* the cleaned text holds it at all
removed_from_any_match(b_lines, c_counts) ==
  IF b_lines = <<>> THEN <<>>
  ELSE LET ln == Head(b_lines)
       IN  IF ln \in DOMAIN c_counts /\ c_counts[ln] > 0
           THEN removed_from_any_match(Tail(b_lines), c_counts)
           ELSE <<ln>> \o removed_from_any_match(Tail(b_lines), c_counts)

RECURSIVE removed_from(_, _)
\* compute_removed_lines, the loop: c_counts maps a line to its remaining count
removed_from(b_lines, c_counts) ==
  IF b_lines = <<>> THEN <<>>
  ELSE LET ln == Head(b_lines)
       IN  IF ln \in DOMAIN c_counts /\ c_counts[ln] > 0
           THEN removed_from(Tail(b_lines), [c_counts EXCEPT ![ln] = @ - 1])
           ELSE <<ln>> \o removed_from(Tail(b_lines), c_counts)

\* Counter(seq)
Counter(seq) ==
  [e \in { seq[k] : k \in 1..Len(seq) } |->
     Cardinality({ k \in 1..Len(seq) : seq[k] = e })]

\* compute_removed_lines
compute_removed_lines(baseline, cleaned) ==
  removed_from(split(baseline), Counter(split(cleaned)))

\* counter_update as dict.update: the counts of other replace those of c
counter_update_overwriting(c, other) ==
  [e \in DOMAIN c \cup DOMAIN other |-> IF e \in DOMAIN other THEN other[e] ELSE c[e]]

\* Counter.update(other)
counter_update(c, other) ==
  [e \in DOMAIN c \cup DOMAIN other |->
     (IF e \in DOMAIN c THEN c[e] ELSE 0) + (IF e \in DOMAIN other THEN other[e] ELSE 0)]

(***************************************************************************)
(* text_cleaner.py: the corpus profiler.                                   *)
(***************************************************************************)
RECURSIVE rat_sum(_)
rat_sum(rs) == IF rs = <<>> THEN <<0, 1>> ELSE RatAdd(Head(rs), rat_sum(Tail(rs)))

\* sorted(ratios)
sorted(rs) == SortSeq(rs, RatLess)

\* statistics.median
median(rs) ==
  LET srt == sorted(rs)
      n == Len(rs)
  IN  IF n % 2 = 1
      THEN srt[(n + 1) \div 2]
      ELSE LET sum == RatAdd(srt[n \div 2], srt[n \div 2 + 1])
           IN  Rat(sum[1], 2 * sum[2])

\* statistics.fmean
fmean(rs) == LET sum == rat_sum(rs) IN Rat(sum[1], sum[2] * Len(rs))

\* sorted(ratios)[int(0.9 * (len(ratios) - 1))]
p90_of(rs) == sorted(rs)[(9 * (Len(rs) - 1)) \div 10 + 1]

\* clamped_guard without the upper cap
clamped_guard_uncapped(med) == RatMax(Rat(30, 100), RatAdd(med, Rat(10, 100)))

\* recommend_guard_from_profile: guard = max(0.30, min(0.60, med + 0.10))
clamped_guard(med) == RatMax(Rat(30, 100), RatMin(Rat(60, 100), RatAdd(med, Rat(10, 100))))

\* recommend_guard_from_profile clamping the default as well
recommend_guard_clamping_default(rs, dflt) ==
  IF rs = <<>> THEN RatMax(Rat(30, 100), RatMin(Rat(60, 100), dflt))
  ELSE clamped_guard(median(rs))

\* recommend_guard_from_profile anchored to the mean instead of the median
recommend_guard_from_mean(rs, dflt) ==
  IF rs = <<>> THEN dflt ELSE clamped_guard(fmean(rs))

\* recommend_guard_from_profile: the value returned
recommend_guard_from_profile(rs, dflt) ==
  IF rs = <<>> THEN dflt ELSE clamped_guard(median(rs))

\* recommend_guard_from_profile: what it prints (mean, median, 90th, guard);
\* nothing is printed for an empty list
profile_report(rs) ==
  IF rs = <<>> THEN <<>>
  ELSE <<fmean(rs), median(rs), p90_of(rs), clamped_guard(median(rs))>>

(***************************************************************************)
(* Inputs of the model.                                                    *)
(***************************************************************************)
\* Most text fragments of one document
MaxFragments == 3

\* Most HTML files under the input root
MaxFiles == 2

\* Most ratios handed to the profiler
MaxRatios == 5

\* Most lines of a text handed to compute_removed_lines
MaxLines == 3

\* Text fragments get_text yields: a sentence with a keyword and a verb, an
\* enumeration with a keyword, an enumeration without one, a short line
\* followed by blank lines, an attendee roster, a roster with a keyword and
\* verbs, a boilerplate phrase.
Fragments ==
  { "We raised the rate.",
    "rate, Ann, Bob, Cy, Di, Al",
    "Ann, Bob, Cy, Di, Al, Flo",
    "Ann and   Bob\n\n\n\nAl",
    "PRESENT: Ann, Bob",
    "ATTENDING: staff was",
    "Back to top" }

\* main.get_text("\n", strip=True) of a document: its fragments joined by "\n"
Texts == { join(fs) : fs \in UNION { [1..n -> Fragments] : n \in 0..MaxFragments } }

\* The values removal_guard takes
GuardValues == { None, Rat(3, 10), Rat(4, 10), Rat(6, 10) }

\* The documents of a corpus
CorpusTexts ==
  { "We raised the rate.",
    "We raised the rate.\nAnn, Bob, Cy, Di, Al, Flo",
    "The Committee raised the target rate again.\nAnn, Bob, Cy, Di, Al, Flo",
    "Ann, Bob, Cy, Di, Al, Flo",
    "PRESENT: Ann, Bob",
    "Back to top" }

\* The values of config.cleaning.removal_guard
ConfigGuards == { Rat(4, 10), Rat(8, 10) }

\* The removal ratios a profile may hold
RatioValues == { Rat(0, 10), Rat(2, 10), Rat(3, 10), Rat(5, 10), Rat(9, 10) }

\* The lines of the texts handed to compute_removed_lines
LineValues == { "Ann", "Bob", "" }

SeqsUpTo(S, n) == UNION { [1..k -> S] : k \in 0..n }

\* The texts handed to compute_removed_lines
LineTexts == { join(ls) : ls \in SeqsUpTo(LineValues, MaxLines) }

(***************************************************************************)
(* State.                                                                  *)
(***************************************************************************)
VARIABLES
  pc,               \* where the modelled call stands
  \* one call of extract_text
  text,             \* main.get_text(...) of the html argument
  is_fomc,          \* argument
  removal_guard,    \* argument
  baseline,         \* local (strict branch)
  kept_lines,       \* local (strict branch)
  fell_back,        \* the "[Guard] Fallback ..." line was printed
  result,           \* the value returned
  \* cmd_clean, FOMC branch, and its process_tree calls
  files,            \* the HTML files under fomc_in, each by its text
  config_guard,     \* config.cleaning.removal_guard
  save_removed,     \* args.save_removed
  idx,              \* position of process_tree's loop in paths
  total_files, total_chars, total_tokens, counter, removal_ratios,
  out_files,        \* the files under fomc_out: position in paths -> content
  guard,            \* cmd_clean's local
  removed_lines,    \* cmd_clean's local
  \* one call of recommend_guard_from_profile
  ratios, default, recommended, report,
  \* one call of compute_removed_lines
  removed_baseline, \* argument baseline
  removed_cleaned,  \* argument cleaned
  removed           \* the list returned

extract_vars == <<text, is_fomc, removal_guard, baseline, kept_lines, fell_back, result>>

tree_vars ==
  <<files, config_guard, save_removed, idx, total_files, total_chars, total_tokens,
    counter, removal_ratios, out_files, guard, removed_lines>>

profile_vars == <<ratios, default, recommended, report>>

removed_vars == <<removed_baseline, removed_cleaned, removed>>

vars == <<pc, extract_vars, tree_vars, profile_vars, removed_vars>>

ExtractIdle ==
  /\ text = "" /\ is_fomc = FALSE /\ removal_guard = None
  /\ baseline = "" /\ kept_lines = <<>> /\ fell_back = FALSE /\ result = ""

TreeIdle ==
  /\ files = <<>> /\ config_guard = None /\ save_removed = FALSE /\ idx = 0
  /\ total_files = 0 /\ total_chars = 0 /\ total_tokens = 0 /\ counter = <<>>
  /\ removal_ratios = <<>> /\ out_files = <<>> /\ guard = None /\ removed_lines = <<>>

ProfileIdle ==
  /\ ratios = <<>> /\ default = None /\ recommended = None /\ report = <<>>

RemovedIdle ==
  /\ removed_baseline = "" /\ removed_cleaned = "" /\ removed = <<>>

(***************************************************************************)
(* Spec: one call of extract_text.                                         *)
(***************************************************************************)
Init ==
  /\ pc = "extract_text"
  /\ text \in Texts
  /\ is_fomc \in BOOLEAN
  /\ removal_guard \in GuardValues
  /\ baseline = "" /\ kept_lines = <<>> /\ fell_back = FALSE /\ result = ""
  /\ TreeIdle /\ ProfileIdle /\ RemovedIdle

\* extract_text(html, is_fomc=True, removal_guard)
ExtractStrict ==
  /\ pc = "extract_text"
  /\ is_fomc
  /\ baseline' = baseline_text(text)
  /\ kept_lines' = keep_lines(split(baseline'))
  /\ fell_back' = guard_falls_back(baseline', join(kept_lines'), removal_guard)
  /\ result' = extract_text(text, TRUE, removal_guard)
  /\ pc' = "returned"
  /\ UNCHANGED <<text, is_fomc, removal_guard, tree_vars, profile_vars, removed_vars>>

\* extract_text(html, is_fomc=False, removal_guard)
ExtractLight ==
  /\ pc = "extract_text"
  /\ ~is_fomc
  /\ result' = extract_text(text, FALSE, removal_guard)
  /\ pc' = "returned"
  /\ UNCHANGED <<text, is_fomc, removal_guard, baseline, kept_lines, fell_back,
                 tree_vars, profile_vars, removed_vars>>

Next == ExtractStrict \/ ExtractLight

Spec == Init /\ [][Next]_vars

(***************************************************************************)
(* SpecTree: the FOMC branch of cmd_clean: a profiling process_tree call   *)
(* with removal_guard=None, recommend_guard_from_profile, and the final    *)
(* process_tree call with the recommended guard.  fomc_in exists and       *)
(* fomc_out starts empty.                                                  *)
(***************************************************************************)
InitTree ==
  /\ pc = "profile"
  /\ files \in SeqsUpTo(CorpusTexts, MaxFiles)
  /\ config_guard \in ConfigGuards
  /\ save_removed \in BOOLEAN
  /\ idx = 1
  /\ total_files = 0 /\ total_chars = 0 /\ total_tokens = 0 /\ counter = <<>>
  /\ removal_ratios = <<>>
  /\ out_files = <<>>
  /\ guard = None
  /\ removed_lines = <<>>
  /\ ExtractIdle /\ ProfileIdle /\ RemovedIdle

\* process_tree is running its loop and has a file left
InLoop == pc \in {"profile", "final"} /\ idx <= Len(files)

\* The removal_guard argument of the running process_tree call
tree_guard == IF pc = "profile" THEN None ELSE guard

\* The running process_tree call was given a removed_collector
collecting == pc = "final" /\ save_removed

\* process_tree: max(0.0, min(1.0, ratio)) of ratio = 1.0 - len(cleaned_for_stats) / len(baseline)
clamped_ratio(base, cleaned_for_stats) ==
  RatMax(Rat(0, 1), RatMin(Rat(1, 1), Rat(Len(base) - Len(cleaned_for_stats), Len(base))))

\* One iteration of process_tree's loop on a readable file, lines 302-316,
\* from the two texts it extracts:
\*   ratios    removal_ratios after lines 305-307
\*   collector removed_collector after lines 309-314
\*   cleaned   the cleaned text of process_file (the same call of
\*             extract_text as cleaned_for_stats)
file_step(base, cleaned_for_stats) ==
  [ ratios |->
      IF base # ""
      THEN Append(removal_ratios, clamped_ratio(base, cleaned_for_stats))
      ELSE removal_ratios,
    collector |->
      IF base # "" /\ collecting /\ compute_removed_lines(base, cleaned_for_stats) # <<>>
      THEN removed_lines \o <<"=== File: " \o ToString(idx)>>
             \o compute_removed_lines(base, cleaned_for_stats) \o <<"">>
      ELSE removed_lines,
    cleaned |-> cleaned_for_stats ]

\* What happens to the file of one iteration:
\*   "read_error"   lines 298-300: the file cannot be read (an I/O error,
\*                  which the latin-1 retry meets again)
\*   "write_error"  process_file, lines 261-262: mkdir or write_text fails
\*                  (only a non-empty cleaned text reaches them)
\*   "ok"           no I/O error
Outcomes == {"ok", "read_error", "write_error"}

\* The exception leaves process_tree and cmd_clean at line 298/300
TreeReadError ==
  /\ pc' = "raised"
  /\ UNCHANGED <<extract_vars, tree_vars, profile_vars, removed_vars>>

\* The exception leaves process_file, process_tree and cmd_clean at line 261/262
TreeWriteError(step) ==
  /\ removal_ratios' = step.ratios
  /\ removed_lines' = step.collector
  /\ pc' = "raised"
  /\ UNCHANGED <<files, config_guard, save_removed, idx, total_files, total_chars,
                 total_tokens, counter, out_files, guard, extract_vars, profile_vars, removed_vars>>

\* TreeSkipEmpty counting the file it skips
TreeSkipEmptyCounted(step) ==
  /\ removal_ratios' = step.ratios
  /\ removed_lines' = step.collector
  /\ total_files' = total_files + 1
  /\ idx' = idx + 1
  /\ UNCHANGED <<pc, files, config_guard, save_removed, total_chars,
                 total_tokens, counter, out_files, guard, extract_vars, profile_vars, removed_vars>>

\* process_file returns None (empty cleaned text): continue
TreeSkipEmpty(step) ==
  /\ removal_ratios' = step.ratios
  /\ removed_lines' = step.collector
  /\ idx' = idx + 1
  /\ UNCHANGED <<pc, files, config_guard, save_removed, total_files, total_chars,
                 total_tokens, counter, out_files, guard, extract_vars, profile_vars, removed_vars>>

\* process_file writes the cleaned text and returns its counts, lines 257-264
\* and 319-323
TreeProcessFile(step) ==
  /\ LET tokens == tokenize(step.cleaned)
     IN  /\ out_files' = [k \in DOMAIN out_files \cup {idx} |->
                            IF k = idx THEN step.cleaned ELSE out_files[k]]
         /\ total_files' = total_files + 1
         /\ total_chars' = total_chars + Len(step.cleaned)
         /\ total_tokens' = total_tokens + Len(tokens)
         /\ counter' = counter_update(counter, Counter(tokens))
  /\ removal_ratios' = step.ratios
  /\ removed_lines' = step.collector
  /\ idx' = idx + 1
  /\ UNCHANGED <<pc, files, config_guard, save_removed, guard, extract_vars, profile_vars, removed_vars>>

\* One iteration of the loop of process_tree, lines 296-323
TreeIteration ==
  /\ InLoop
  /\ \E outcome \in Outcomes :
     \E base \in { extract_text(files[idx], FALSE, None) } :
     \E cleaned_for_stats \in { extract_text(files[idx], TRUE, tree_guard) } :
     \E step \in { file_step(base, cleaned_for_stats) } :
       IF outcome = "read_error" THEN TreeReadError
       ELSE IF step.cleaned = "" THEN TreeSkipEmpty(step)
       ELSE IF outcome = "write_error" THEN TreeWriteError(step)
       ELSE TreeProcessFile(step)

\* cmd_clean, lines 59-65: the profiling call returns its ratios, the guard
\* is recommended, and the final call starts
ProfileReturn ==
  /\ pc = "profile"
  /\ idx > Len(files)
  /\ ratios' = removal_ratios
  /\ default' = config_guard
  /\ recommended' = recommend_guard_from_profile(removal_ratios, config_guard)
  /\ report' = profile_report(removal_ratios)
  /\ guard' = recommended'
  /\ idx' = 1
  /\ total_files' = 0 /\ total_chars' = 0 /\ total_tokens' = 0 /\ counter' = <<>>
  /\ removal_ratios' = <<>>
  /\ pc' = "final"
  /\ UNCHANGED <<files, config_guard, save_removed, out_files, removed_lines, extract_vars,
                 removed_vars>>

\* cmd_clean, lines 65-72: the final call returns
FinalReturn ==
  /\ pc = "final"
  /\ idx > Len(files)
  /\ pc' = "done"
  /\ UNCHANGED <<extract_vars, tree_vars, profile_vars, removed_vars>>

NextTree ==
  \/ TreeIteration
  \/ ProfileReturn
  \/ FinalReturn

SpecTree == InitTree /\ [][NextTree]_vars

(***************************************************************************)
(* SpecProfile: one call of recommend_guard_from_profile.                  *)
(***************************************************************************)
InitProfile ==
  /\ pc = "recommend"
  /\ ratios \in SeqsUpTo(RatioValues, MaxRatios)
  /\ default \in ConfigGuards
  /\ recommended = None
  /\ report = <<>>
  /\ ExtractIdle /\ TreeIdle /\ RemovedIdle

Recommend ==
  /\ pc = "recommend"
  /\ recommended' = recommend_guard_from_profile(ratios, default)
  /\ report' = profile_report(ratios)
  /\ pc' = "recommended"
  /\ UNCHANGED <<ratios, default, extract_vars, tree_vars, removed_vars>>

NextProfile == Recommend

SpecProfile == InitProfile /\ [][NextProfile]_vars

(***************************************************************************)
(* SpecRemoved: one call of compute_removed_lines.                         *)
(***************************************************************************)
InitRemoved ==
  /\ pc = "compute_removed_lines"
  /\ removed_baseline \in LineTexts
  /\ removed_cleaned \in LineTexts
  /\ removed = <<>>
  /\ ExtractIdle /\ TreeIdle /\ ProfileIdle

ComputeRemoved ==
  /\ pc = "compute_removed_lines"
  /\ removed' = compute_removed_lines(removed_baseline, removed_cleaned)
  /\ pc' = "removed"
  /\ UNCHANGED <<removed_baseline, removed_cleaned, extract_vars, tree_vars, profile_vars>>

NextRemoved == ComputeRemoved

SpecRemoved == InitRemoved /\ [][NextRemoved]_vars

(***************************************************************************)
(* Properties of extract_text (checked under Spec).                        *)
(***************************************************************************)
RECURSIVE IsSubseq(_, _)
\* a is b with some elements deleted
IsSubseq(a, b) ==
  IF a = <<>> THEN TRUE
  ELSE IF b = <<>> THEN FALSE
  ELSE IF Head(a) = Head(b) THEN IsSubseq(Tail(a), Tail(b))
  ELSE IsSubseq(a, Tail(b))

StrictReturned == pc = "returned" /\ is_fomc

LightReturned == pc = "returned" /\ ~is_fomc

NarrativeOrNotGarbage(ln) == line_is_narrative(ln) \/ ~line_is_garbage(ln)

NarrativeAndGarbage(ln) == line_is_narrative(ln) /\ line_is_garbage(ln)

NeitherNarrativeNorGarbage(ln) == ~line_is_narrative(ln) /\ ~line_is_garbage(ln)

HasLine(lines, Test(_)) == \E k \in 1..Len(lines) : Test(lines[k])

\* C1: in strict mode, when the guard does not fall back, the lines kept are
\* exactly the baseline lines that are narrative or not garbage, in order
\* (so a line that is both narrative and garbage is kept, and so is a line
\* that is neither), and the text returned is their normalized join.
C1_KeptIffNarrativeOrNotGarbage ==
  (StrictReturned /\ ~fell_back) =>
    LET expected == SelectSeq(split(baseline), NarrativeOrNotGarbage)
    IN  /\ kept_lines = expected
        /\ result = normalize(join(expected))

\* C1 happens: no fallback, and the baseline holds a line that is both
\* narrative and garbage, a line that is neither, and a line that was dropped.
C1_Witness ==
  /\ StrictReturned /\ ~fell_back
  /\ HasLine(split(baseline), NarrativeAndGarbage)
  /\ HasLine(split(baseline), NeitherNarrativeNorGarbage)
  /\ Len(kept_lines) < Len(split(baseline))

\* The removal ratio 1 - len(filtered)/len(baseline) exceeds the rational g
RatioExceeds(baseline_, filtered, g) ==
  (Len(baseline_) - Len(filtered)) * g[2] > g[1] * Len(baseline_)

\* C2: in strict mode with a non-empty baseline and a guard value g, the text
\* returned is the normalized baseline (what light mode returns for the same
\* document) when the removal ratio is strictly greater than g, and the
\* normalized filtered text when the ratio is at most g.
C2_GuardSelectsBaselineOrFiltered ==
  (StrictReturned /\ removal_guard # None /\ baseline # "") =>
    IF RatioExceeds(baseline, join(kept_lines), removal_guard)
    THEN /\ result = normalize(baseline)
         /\ result = extract_text(text, FALSE, removal_guard)
    ELSE result = normalize(join(kept_lines))

\* C2 happens: a ratio strictly above the guard with a filtered text that
\* differs from the baseline (as 1000 -> 550 characters under guard 0.4).
C2_Witness ==
  /\ StrictReturned /\ removal_guard = Rat(4, 10) /\ baseline # ""
  /\ RatioExceeds(baseline, join(kept_lines), removal_guard)
  /\ join(kept_lines) # ""
  /\ normalize(join(kept_lines)) # result

\* C3: in strict mode, for every document and guard, the lines of the
\* filtered text, and the lines of the text the guard lets through, are an
\* order-preserving subsequence of the baseline's lines.
C3_FilteredIsSubsequenceOfBaseline ==
  StrictReturned =>
    /\ IsSubseq(kept_lines, split(baseline))
    /\ IsSubseq(split(guarded_text(baseline, removal_guard)), split(baseline))

\* C3 happens: some lines were dropped and some were kept.
C3_Witness ==
  /\ StrictReturned
  /\ Len(kept_lines) < Len(split(baseline))
  /\ Len(kept_lines) >= 2

\* C4: guard monotonicity: when the filtered text is kept under the guard of
\* the call, it is kept under every guard at least as large.
C4_GuardMonotone ==
  (StrictReturned /\ removal_guard # None /\ ~fell_back) =>
    \A g2 \in GuardValues \ {None} :
      RatLeq(removal_guard, g2) =>
        /\ ~guard_falls_back(baseline, join(kept_lines), g2)
        /\ extract_text(text, TRUE, g2) = result

\* C4 happens: the filtered text is kept under a guard, lines were removed,
\* and a smaller guard would have reverted to the baseline.
C4_Witness ==
  /\ StrictReturned /\ removal_guard # None /\ ~fell_back
  /\ Len(kept_lines) < Len(split(baseline))
  /\ \E g1 \in GuardValues \ {None} :
       RatLess(g1, removal_guard) /\ RatioExceeds(baseline, join(kept_lines), g1)

\* A line that _line_is_garbage flags only through the heuristic (>= 6 words,
\* >= 3 commas, no verb)
HeuristicGarbage(ln) == line_is_garbage(ln) /\ ~matches_remove_pattern(ln)

\* C5: in light mode the result does not depend on removal_guard, and every
\* line that only the garbage heuristic flags is still in the output.
C5_LightModeIgnoresGuardAndClassifier ==
  LightReturned =>
    /\ \A g \in GuardValues : extract_text(text, FALSE, g) = result
    /\ LET lines == split(remove_boilerplate(text))
       IN  \A k \in 1..Len(lines) :
             HeuristicGarbage(lines[k]) =>
               Contains(result, strip(collapse(lines[k], Blanks, 1, " ")))

\* C5 happens: a light-mode call on a document holding a heuristic-garbage
\* line that strict mode would have removed.
C5_Witness ==
  /\ LightReturned
  /\ HasLine(split(remove_boilerplate(text)), HeuristicGarbage)
  /\ extract_text(text, TRUE, Rat(6, 10)) # result

\* C6: a call with is_fomc=True and removal_guard=None never falls back: the
\* filtered text is returned however large the removal ratio is.
C6_UnguardedNeverFallsBack ==
  (StrictReturned /\ removal_guard = None) =>
    /\ ~fell_back
    /\ result = normalize(join(kept_lines))

(***************************************************************************)
(* Properties of cmd_clean and process_tree (checked under SpecTree).      *)
(***************************************************************************)
\* C7: the profiling pass writes no output file: as long as cmd_clean is in
\* its profiling process_tree call, nothing is under the output root.
C7_ProfilingPassWritesNothing == pc = "profile" => DOMAIN out_files = {}

\* C8: a failure while processing one file does not abort the walk:
\* process_tree never ends by the exception of one file.
C8_FileFailureDoesNotAbortWalk == pc # "raised"

\* C9: an iteration of process_tree on a file that was read and whose cleaned
\* text is empty writes no output file, leaves total_files, total_chars,
\* total_tokens and the token counter unchanged, and goes on to the next
\* file.
C9_EmptyCleanedTextIsSkipped ==
  [][ (InLoop /\ pc' # "raised" /\ extract_text(files[idx], TRUE, tree_guard) = "") =>
        /\ out_files' = out_files
        /\ total_files' = total_files
        /\ total_chars' = total_chars
        /\ total_tokens' = total_tokens
        /\ counter' = counter
        /\ idx' = idx + 1
        /\ pc' = pc ]_vars

\* C9 happens: the final pass skipped a first file with an empty cleaned text
\* and then processed and wrote the second one.
C9_Witness ==
  /\ pc = "final" /\ Len(files) = 2 /\ idx = 3
  /\ extract_text(files[1], TRUE, guard) = ""
  /\ DOMAIN out_files = {2}
  /\ total_files = 1

(***************************************************************************)
(* Properties of recommend_guard_from_profile (checked under SpecProfile). *)
(***************************************************************************)
\* The r-th smallest of the ratios rs
RankedRatio(rs, r) ==
  CHOOSE x \in { rs[k] : k \in 1..Len(rs) } :
    /\ Cardinality({ k \in 1..Len(rs) : RatLess(rs[k], x) }) < r
    /\ Cardinality({ k \in 1..Len(rs) : RatLeq(rs[k], x) }) >= r

\* The median of rs plus 0.10: the middle value, or the mean of the two
\* middle values
MedianPlusTenth(rs) ==
  LET lo == RankedRatio(rs, (Len(rs) + 1) \div 2)
      hi == RankedRatio(rs, Len(rs) \div 2 + 1)
  IN  Rat(10 * (lo[1] * hi[2] + hi[1] * lo[2]) + 2 * lo[2] * hi[2], 20 * lo[2] * hi[2])

\* C10: on a non-empty ratio list recommend_guard_from_profile returns the
\* median plus 0.10 clamped to [0.30, 0.60], whatever the mean and the 90th
\* percentile are; [0.2, 0.3, 0.3, 0.5, 0.9] gives 0.40.
C10_GuardIsClampedMedianPlusTenth ==
  (pc = "recommended" /\ ratios # <<>>) =>
    /\ LET g == MedianPlusTenth(ratios)
       IN  recommended = IF RatLess(g, Rat(30, 100)) THEN Rat(30, 100)
                         ELSE IF RatLess(Rat(60, 100), g) THEN Rat(60, 100)
                         ELSE g
    /\ ratios = <<Rat(2, 10), Rat(3, 10), Rat(3, 10), Rat(5, 10), Rat(9, 10)>>
         => recommended = Rat(40, 100)

\* C10 happens: the example of the claim, whose mean (0.44) and 90th
\* percentile (0.5) differ from its median (0.3).
C10_Witness ==
  /\ pc = "recommended"
  /\ ratios = <<Rat(2, 10), Rat(3, 10), Rat(3, 10), Rat(5, 10), Rat(9, 10)>>
  /\ recommended = Rat(40, 100)
  /\ report = <<Rat(44, 100), Rat(3, 10), Rat(5, 10), Rat(40, 100)>>

(***************************************************************************)
(* Properties of the guard: recommend_guard_from_profile (SpecProfile) and *)
(* cmd_clean (SpecTree).                                                   *)
(***************************************************************************)
\* The guard value g lies in [0.30, 0.60]
InGuardRange(g) == RatLeq(Rat(30, 100), g) /\ RatLeq(g, Rat(60, 100))

\* C11: for every non-empty list of ratios in [0, 1] and every default, the
\* value recommend_guard_from_profile returns lies in [0.30, 0.60].
C11_RecommendedGuardInRange ==
  (pc = "recommended" /\ ratios # <<>>) => InGuardRange(recommended)

\* C11 happens: a list whose median plus 0.10 is above the range (1.0) was
\* given with a default outside the range, and the upper bound was returned.
C11_Witness ==
  /\ pc = "recommended"
  /\ ratios = <<Rat(9, 10), Rat(9, 10), Rat(0, 10)>>
  /\ default = Rat(8, 10)
  /\ recommended = Rat(60, 100)

C13_FinalPassAfterProfilingWithOneGuard ==
  [][ /\ (pc = "profile" /\ pc' = "final") =>
           (idx > Len(files) /\ Len(ratios') <= Len(files))
      /\ pc = "final" => guard' = guard ]_vars

\* C13: the guard cmd_clean applies to the final pass lies in [0.30, 0.60],
\* for every corpus (one that yields no ratios included) and every
\* configured cleaning.removal_guard.
C13_FinalGuardInRange ==
  pc \in {"final", "done"} => InGuardRange(guard)

(***************************************************************************)
(* Further properties of extract_text (checked under Spec).                *)
(***************************************************************************)
\* C14: when the baseline of a strict-mode call is empty, the call returns,
\* no fallback is reported, and the filtered text (normalized) is the
\* result, whatever the guard is.
C14_EmptyBaselinePassesThrough ==
  (pc # "extract_text" /\ is_fomc /\ baseline_text(text) = "") =>
    /\ pc = "returned"
    /\ ~fell_back
    /\ result = normalize(join(kept_lines))

\* C14 happens: a strict-mode call with a numeric guard on a document that
\* holds only a roster line returned with an empty baseline.
C14_Witness ==
  /\ StrictReturned
  /\ text = "PRESENT: Ann, Bob" /\ removal_guard = Rat(3, 10)
  /\ baseline = "" /\ kept_lines = <<"">>
  /\ ~fell_back /\ result = ""

\* The line matches one of the attendee-roster entries of
\* REMOVE_LINE_PATTERNS (PRESENT:, ATTENDEE(S):, ATTENDING:, Attended ... session)
IsRosterLine(ln) ==
  LET m == REMOVE_LINE_PATTERNS(strip(ln))
  IN  m[1] \/ m[2] \/ m[3] \/ m[4]

\* C15: every roster line of the document is garbage for _line_is_garbage,
\* and the strict-mode output holds no roster line, whether the line is
\* narrative or not and whether the guard fell back or not.
C15_RosterLinesNeverInStrictOutput ==
  StrictReturned =>
    /\ LET lines == split(remove_boilerplate(text))
       IN  \A k \in 1..Len(lines) :
             IsRosterLine(lines[k]) =>
               /\ line_is_garbage(lines[k])
               /\ ~Contains(result, strip(lines[k]))
    /\ LET out == split(result)
       IN  \A k \in 1..Len(out) : ~IsRosterLine(out[k])

\* C15 happens: the document holds a roster line with a narrative keyword
\* and verbs, the guard fell back to the baseline, and the roster line is
\* not in the result.
C15_Witness ==
  /\ StrictReturned
  /\ text = "ATTENDING: staff was\nAnn, Bob, Cy, Di, Al, Flo"
  /\ line_is_narrative("ATTENDING: staff was")
  /\ fell_back
  /\ result = "Ann, Bob, Cy, Di, Al, Flo"

\* C17: the final normalization of extract_text is idempotent: normalizing
\* the text a call returned gives that text again; the returned text has no
\* run of two blanks, no tab, no run of three newlines and no white space at
\* either end.
C17_NormalizationIsIdempotent ==
  pc = "returned" =>
    /\ normalize(result) = result
    /\ ~Contains(result, "  ") /\ ~Contains(result, "\t")
    /\ ~Contains(result, "\n\n\n")
    /\ strip(result) = result

\* C17 happens: the call returned a text in which the normalization had
\* collapsed a run of blanks and a run of newlines.
C17_Witness ==
  /\ LightReturned
  /\ text = "Ann and   Bob\n\n\n\nAl\nBack to top"
  /\ result = "Ann and Bob\n\nAl"
  /\ normalize(result) = result

\* The garbage heuristic of _line_is_garbage holds of the line and nothing
\* makes it narrative: at least 6 words, at least 3 commas, no verb-like
\* token, no narrative keyword
DroppedByHeuristic(ln) ==
  /\ Len(findall(ln, AlphaApos)) >= 6
  /\ comma_count(ln) >= 3
  /\ ~VERB_PATTERN(ln)
  /\ \A k \in NARRATIVE_KEYWORDS : ~Contains(lower(ln), k)

\* C18: no line of the baseline of a strict-mode call matches an entry of
\* REMOVE_LINE_PATTERNS, so every baseline line the classification drops is
\* dropped by the heuristic: 6 or more words, 3 or more commas, no verb-like
\* token and no narrative keyword; the other lines are all kept.
C18_DroppedLinesAreHeuristicGarbage ==
  StrictReturned =>
    LET base_lines == split(baseline)
        dropped == { k \in 1..Len(base_lines) : ~NarrativeOrNotGarbage(base_lines[k]) }
    IN  /\ \A k \in 1..Len(base_lines) : ~matches_remove_pattern(base_lines[k])
        /\ \A k \in dropped : DroppedByHeuristic(base_lines[k])
        /\ Len(kept_lines) + Cardinality(dropped) = Len(base_lines)

\* C18 happens: the document held a roster line, which the baseline no
\* longer has, and an enumeration, which the classification dropped.
C18_Witness ==
  /\ StrictReturned
  /\ text = "PRESENT: Ann, Bob\nAnn, Bob, Cy, Di, Al, Flo\nWe raised the rate."
  /\ removal_guard = Rat(6, 10)
  /\ baseline = "Ann, Bob, Cy, Di, Al, Flo\nWe raised the rate."
  /\ kept_lines = <<"We raised the rate.">>
  /\ result = "We raised the rate."

(***************************************************************************)
(* Properties of the totals of process_tree (checked under SpecTree).      *)
(***************************************************************************)
RECURSIVE SumOfCounts(_, _)
\* The sum of the counts c gives to the tokens in toks
SumOfCounts(c, toks) ==
  IF toks = {} THEN 0
  ELSE LET t == CHOOSE x \in toks : TRUE
       IN  c[t] + SumOfCounts(c, toks \ {t})

RECURSIVE SumOfLengths(_)
\* The sum of the lengths of the texts in the sequence
SumOfLengths(texts) ==
  IF texts = <<>> THEN 0 ELSE Len(Head(texts)) + SumOfLengths(Tail(texts))

\* The cleaned texts of the files the running process_tree call has been
\* through
CleanedSoFar == [k \in 1..(idx - 1) |-> extract_text(files[k], TRUE, tree_guard)]

\* C19: during and after each process_tree call total_tokens is the sum of
\* the counts of the counter, total_files the number of files gone through
\* whose cleaned text is not empty (at most the number of files), and
\* total_chars the sum of the lengths of those texts; within one call no
\* total and no count of a token decreases.
C19_TotalsAgreeAndNeverDecrease ==
  /\ [](/\ total_tokens = SumOfCounts(counter, DOMAIN counter)
        /\ total_files = Cardinality({ k \in DOMAIN CleanedSoFar : CleanedSoFar[k] # "" })
        /\ total_files <= Len(files)
        /\ total_chars = SumOfLengths(CleanedSoFar))
  /\ [][ ~(pc = "profile" /\ pc' = "final") =>
           /\ total_files' >= total_files
           /\ total_chars' >= total_chars
           /\ total_tokens' >= total_tokens
           /\ \A t \in DOMAIN counter :
                t \in DOMAIN counter' /\ counter'[t] >= counter[t] ]_vars

\* C19 happens: the final pass went twice through the same sentence, whose
\* tokens the counter holds twice.
C19_Witness ==
  /\ pc = "done"
  /\ files = <<"We raised the rate.", "We raised the rate.">>
  /\ total_files = 2 /\ total_chars = 38 /\ total_tokens = 8
  /\ counter = [t \in {"we", "raised", "the", "rate"} |-> 2]

(***************************************************************************)
(* Properties of compute_removed_lines (checked under SpecRemoved).        *)
(***************************************************************************)
\* How many times the line ln occurs in lines
LineCount(lines, ln) == Cardinality({ k \in 1..Len(lines) : lines[k] = ln })

\* C16: compute_removed_lines returns a subsequence of the baseline lines in
\* which every line occurs max(0, count in baseline - count in cleaned)
\* times; when the cleaned lines are a subsequence of the baseline lines the
\* lengths add up, and equal texts give the empty list.
C16_RemovedIsMultisetDifference ==
  pc = "removed" =>
    LET b_lines == split(removed_baseline)
        c_lines == split(removed_cleaned)
    IN  /\ IsSubseq(removed, b_lines)
        /\ \A ln \in LineValues :
             LineCount(removed, ln) =
               IF LineCount(b_lines, ln) > LineCount(c_lines, ln)
               THEN LineCount(b_lines, ln) - LineCount(c_lines, ln)
               ELSE 0
        /\ IsSubseq(c_lines, b_lines) => Len(removed) + Len(c_lines) = Len(b_lines)
        /\ removed_baseline = removed_cleaned => removed = <<>>

\* C16 happens: the baseline holds a line twice, the cleaned text once, and
\* the later occurrence is returned after the line that was dropped.
C16_Witness ==
  /\ pc = "removed"
  /\ removed_baseline = "Ann\nBob\nAnn" /\ removed_cleaned = "Ann"
  /\ removed = <<"Bob", "Ann">>

====
